---- MODULE Spec2Model ----
(***************************************************************************)
(* Icon Pelikan: the icon composer (icon_processor.create_icon), the      *)
(* manifest exporter (icon_processor.export_iconset), the container       *)
(* packer (icon_processor.to_icns) and the composite export workflow      *)
(* (main.IconPelikan.save_icns), over an abstract file system.            *)
(***************************************************************************)
EXTENDS Integers, Sequences, FiniteSets, TLC

(* ------------------------------------------------------------------ *)
(* Bounds of the model                                                 *)
(* ------------------------------------------------------------------ *)
\* number of save_icns invocations explored in one behaviour
MaxRuns == 2
\* create_icon is explored for canvases 1..MaxCanvas
MaxCanvas == 8
\* corner radii 0..MaxRadius
MaxRadius == 2
\* scale is the binary fraction k / ScaleDen, k in 1..ScaleDen, with
\* ScaleDen = 2^ScaleBits; for these values the floating-point product
\* icon_px * scale is exact, so int() of it is the integer quotient
ScaleBits == 3
ScaleDen == 2 ^ ScaleBits

None == "None"
\* Python's None where an image, a path or an integer is expected
NoImage == [width |-> 0, height |-> 0, mode |-> None]
NoCode == -1

(* ------------------------------------------------------------------ *)
(* Paths: pathlib.Path reduced to (stem, suffix) inside one parent     *)
(* ------------------------------------------------------------------ *)
Suffixes == {"", ".icns", ".iconset", ".png"}
Stem == "icon"
Paths == [stem : {Stem}, suffix : Suffixes]

\* Path.with_suffix: the last suffix of the name is replaced (appended
\* when the name has none)
with_suffix(p, s) == [p EXCEPT !.suffix = s]
\* no path: the dialog was cancelled, or nothing was returned
NoPath == [stem |-> "", suffix |-> ""]

(* ------------------------------------------------------------------ *)
(* File system entries                                                 *)
(* ------------------------------------------------------------------ *)
\* origin "pre": on disk before the current save_icns run started;
\* origin "run": created by the current run
Absent == [kind |-> "absent", origin |-> "pre", files |-> <<>>]
File(o) == [kind |-> "file", origin |-> o, files |-> <<>>]
Dir(o, fl) == [kind |-> "dir", origin |-> o, files |-> fl]

\* Path.exists / Path.is_dir
exists(f, p) == f[p].kind # "absent"
is_dir(f, p) == f[p].kind = "dir"

(* ------------------------------------------------------------------ *)
(* icon_processor.py                                                   *)
(* ------------------------------------------------------------------ *)
APPLE_SIZES == <<16, 32, 64, 128, 256, 512, 1024>>

\* f"icon_{size}x{size}.png" and f"icon_{size}x{size}@2x.png"
p1_name(size) == "icon_" \o ToString(size) \o "x" \o ToString(size) \o ".png"
p2_name(size) == "icon_" \o ToString(size) \o "x" \o ToString(size) \o "@2x.png"

\* Image.resize((w, h)): a new image of exactly that size
resize(img, w, h) == [width |-> w, height |-> h, mode |-> img.mode]

\* variant of manifest_entry: the @2x file is resized to the plain size
manifest_entry_plain_2x(img, i) ==
    LET size == APPLE_SIZES[(i \div 2) + 1]
    IN  IF i % 2 = 0
        THEN [name |-> p1_name(size), image |-> resize(img, size, size)]
        ELSE [name |-> p2_name(size), image |-> resize(img, size, size)]

\* the i-th file (0-based) written by the loop of export_iconset:
\* p1 of a size, then p2 of the same size
ManifestCount == 2 * Len(APPLE_SIZES)
manifest_entry(img, i) ==
    LET size == APPLE_SIZES[(i \div 2) + 1]
    IN  IF i % 2 = 0
        THEN [name |-> p1_name(size), image |-> resize(img, size, size)]
        ELSE [name |-> p2_name(size), image |-> resize(img, size * 2, size * 2)]

\* PIL resize rejects a target size below 1 x 1 (ValueError "height and
\* width must be > 0"); an image that already has the target size is copied
resize_ok(img, w, h) == (w >= 1 /\ h >= 1) \/ (img.width = w /\ img.height = h)

\* Image.new("RGBA", (w, h), ...)
new_image(w, h) == [width |-> w, height |-> h, mode |-> "RGBA"]

\* create_icon(source, icon_px, scale = k / ScaleDen, radius, shape, background):
\* the canvas, the side of the inner image and the offset it is pasted at;
\* raised names the exception when the call does not return
create_icon(source, icon_px, k, radius, shape, background) ==
    LET canvas == new_image(icon_px, icon_px)
        inner_px == (icon_px * k) \div ScaleDen
        xy == (icon_px - inner_px) \div 2
    IN  IF ~ resize_ok(source, inner_px, inner_px)
        THEN [raised |-> "ValueError", canvas |-> NoImage,
              inner_px |-> inner_px, xy |-> xy]
        ELSE [raised |-> None, canvas |-> canvas,
              inner_px |-> inner_px, xy |-> xy]

(* ------------------------------------------------------------------ *)
(* Pixels.  A pixel is <<r, g, b, a>>; an image's pixel data is a      *)
(* function of <<x, y>>.  Source images are uniform (one colour, one   *)
(* alpha), so that resampling leaves every pixel at that value.  The   *)
(* drawing of the mask follows the pixel positions relative to the     *)
(* bounding box; the rasteriser's rounding on the outline is not       *)
(* reproduced.                                                         *)
(* ------------------------------------------------------------------ *)
\* background = None
NoBackground == <<>>
\* (0, 0, 0, 0)
Clear == <<0, 0, 0, 0>>
Grid(n) == (0..(n - 1)) \X (0..(n - 1))

\* the library's exact division by 255 with rounding
DIV255(a) == LET tmp == a + 128 IN ((tmp \div 256) + tmp) \div 256
\* one channel of Image.paste with a mask: in1 is the destination
BLEND(mask, in1, in2) == DIV255(in1 * (255 - mask) + in2 * mask)
\* Image.paste(..., mask): all four channels of the destination pixel are
\* blended with the pasted pixel by the mask value
blend_pixel(mask, dst, src) == [c \in 1..4 |-> BLEND(mask, dst[c], src[c])]

\* Image.alpha_composite of one pixel src over dst
PRECISION_BITS == 7
SHIFTFORDIV255(a) == ((a \div 256) + a) \div 256
alpha_composite(dst, src) ==
    IF src[4] = 0
    THEN dst
    ELSE LET blend == dst[4] * (255 - src[4])
             outa255 == src[4] * 255 + blend
             coef1 == (src[4] * 255 * 255 * (2 ^ PRECISION_BITS)) \div outa255
             coef2 == 255 * (2 ^ PRECISION_BITS) - coef1
             ch(c) == SHIFTFORDIV255(src[c] * coef1 + dst[c] * coef2
                                     + 128 * (2 ^ PRECISION_BITS))
                        \div (2 ^ PRECISION_BITS)
         IN  <<ch(1), ch(2), ch(3), SHIFTFORDIV255(outa255 + 128)>>

\* lines 34-37: the transparent canvas, with the background image
\* composited onto it when a background is given
fill_background(icon_px, background) ==
    [q \in Grid(icon_px) |->
        IF background = NoBackground
        THEN Clear
        ELSE alpha_composite(Clear, background)]

\* line 40: source.convert("RGBA").resize((n, n), LANCZOS) of a uniform
\* source: every pixel keeps the source's colour and alpha
resample(source, n) ==
    [q \in Grid(n) |-> <<source.rgb[1], source.rgb[2], source.rgb[3],
                         source.alpha>>]

\* lines 42-49: the "L" mask, 0 outside and 255 inside the shape drawn in
\* the box (0, 0, n, n); the corner circles have diameter 2 * radius, at
\* most the side of the box; the ellipse is the case of diameter n
mask_value(shape, n, radius, i, j) ==
    LET d == IF shape = "rounded"
             THEN IF 2 * radius >= n THEN n ELSE 2 * radius
             ELSE n
        ci == IF i <= n - i THEN i ELSE n - i
        cj == IF j <= n - j THEN j ELSE n - j
        inCorner == 2 * ci < d /\ 2 * cj < d
        inside == ~ inCorner
                  \/ (2 * ci - d) * (2 * ci - d) + (2 * cj - d) * (2 * cj - d)
                       <= d * d
    IN  IF inside THEN 255 ELSE 0

draw_mask(shape, n, radius) ==
    [q \in Grid(n) |-> mask_value(shape, n, radius, q[1], q[2])]

\* variant of paste_masked: the image is pasted without the mask
paste_masked_no_mask(img, mask, n) ==
    [q \in Grid(n) |-> img[q]]

\* lines 51-52: rounded = transparent image; rounded.paste(img, mask=mask)
paste_masked(img, mask, n) ==
    [q \in Grid(n) |-> blend_pixel(mask[q], Clear, img[q])]

\* line 56: canvas.paste(rounded, (xy, xy), rounded): the alpha band of
\* rounded is the mask of the paste
paste_centered(canvas, rounded, xy, n, icon_px) ==
    [q \in Grid(icon_px) |->
        IF /\ xy <= q[1] /\ q[1] < xy + n
           /\ xy <= q[2] /\ q[2] < xy + n
        THEN LET rp == rounded[<<q[1] - xy, q[2] - xy>>]
             IN  blend_pixel(rp[4], canvas[q], rp)
        ELSE canvas[q]]

\* the pixel data of the canvas create_icon returns
create_icon_pixels(source, icon_px, k, radius, shape, background) ==
    LET inner_px == (icon_px * k) \div ScaleDen
        xy == (icon_px - inner_px) \div 2
        canvas == fill_background(icon_px, background)
        img == resample(source, inner_px)
        mask == draw_mask(shape, inner_px, radius)
        rounded == paste_masked(img, mask, inner_px)
    IN  paste_centered(canvas, rounded, xy, inner_px, icon_px)

\* Image.save(path) inside a directory listing: a file of that name is
\* replaced, otherwise the file is added
save_file(files, entry) ==
    IF \E j \in 1..Len(files) : files[j].name = entry.name
    THEN [j \in 1..Len(files) |->
            IF files[j].name = entry.name THEN entry ELSE files[j]]
    ELSE Append(files, entry)

\* exception kinds (Python exception classes) raised by to_icns
ToolMissingKind == "FileNotFoundError"     \* subprocess.run, not caught
ToolNotExecutableKind == "PermissionError" \* subprocess.run, not caught
ConversionFailedKind == "RuntimeError"     \* raised from CalledProcessError
PostconditionFailedKind == "FileNotFoundError"

\* an exception in flight: its class, the step that raised it, and what a
\* CalledProcessError cause carries (returncode, stdout, stderr)
Exc(type, site) ==
    [type |-> type, site |-> site, returncode |-> NoCode,
     stdout |-> None, stderr |-> None]

NoExc == Exc(None, None)

\* subprocess.run([...], check=True) with no capture: the CalledProcessError
\* has the exit code, its stdout and stderr attributes are None
CalledProcessError(code, out, err) ==
    [type |-> "CalledProcessError", site |-> "to_icns", returncode |-> code,
     stdout |-> None, stderr |-> None]

\* raise RuntimeError(f"iconutil command failed: {e}. ...") from e: the
\* message embeds str(e) (with the exit status) and __cause__ is e
RuntimeErrorFrom(e) == [e EXCEPT !.type = ConversionFailedKind]

\* what the external converter can do in one invocation
ToolOutcomes ==
    { [state |-> "absent", exit |-> NoCode, out |-> None, err |-> None,
       produced |-> FALSE],
      [state |-> "noexec", exit |-> NoCode, out |-> None, err |-> None,
       produced |-> FALSE],
      [state |-> "ran", exit |-> 1, out |-> "out", err |-> "diag",
       produced |-> FALSE],
      [state |-> "ran", exit |-> 0, out |-> "", err |-> "",
       produced |-> FALSE],
      [state |-> "ran", exit |-> 0, out |-> "", err |-> "",
       produced |-> TRUE] }
NoTool == [state |-> None, exit |-> NoCode, out |-> None, err |-> None,
           produced |-> FALSE]

\* variant of to_icns: the existence check after the converter is left out
to_icns_unverified(f, iconset, t) ==
    LET icns_path == with_suffix(iconset, ".icns")
        f2 == IF t.state = "ran" /\ t.exit = 0 /\ t.produced
              THEN [f EXCEPT ![icns_path] = File("run")]
              ELSE f
    IN  IF t.state = "absent"
        THEN [fs |-> f, ret |-> NoPath, exc |-> Exc(ToolMissingKind, "to_icns")]
        ELSE IF t.state = "noexec"
        THEN [fs |-> f, ret |-> NoPath,
              exc |-> Exc(ToolNotExecutableKind, "to_icns")]
        ELSE IF t.exit # 0
        THEN [fs |-> f, ret |-> NoPath,
              exc |-> RuntimeErrorFrom(CalledProcessError(t.exit, t.out, t.err))]
        ELSE [fs |-> f2, ret |-> icns_path, exc |-> NoExc]

\* variant of to_icns: the output file is opened (created) before the
\* converter is started
to_icns_touch(f, iconset, t) ==
    LET icns_path == with_suffix(iconset, ".icns")
        f2 == [f EXCEPT ![icns_path] = File("run")]
    IN  IF t.state = "absent"
        THEN [fs |-> f2, ret |-> NoPath, exc |-> Exc(ToolMissingKind, "to_icns")]
        ELSE IF t.state = "noexec"
        THEN [fs |-> f2, ret |-> NoPath,
              exc |-> Exc(ToolNotExecutableKind, "to_icns")]
        ELSE IF t.exit # 0
        THEN [fs |-> f2, ret |-> NoPath,
              exc |-> RuntimeErrorFrom(CalledProcessError(t.exit, t.out, t.err))]
        ELSE [fs |-> f2, ret |-> icns_path, exc |-> NoExc]

\* to_icns(iconset) on file system f with converter outcome t: the file
\* system afterwards, the returned path or the raised exception
to_icns(f, iconset, t) ==
    LET icns_path == with_suffix(iconset, ".icns")
        f2 == IF t.state = "ran" /\ t.exit = 0 /\ t.produced
              THEN [f EXCEPT ![icns_path] = File("run")]
              ELSE f
    IN  IF t.state = "absent"
        THEN [fs |-> f, ret |-> NoPath, exc |-> Exc(ToolMissingKind, "to_icns")]
        ELSE IF t.state = "noexec"
        THEN [fs |-> f, ret |-> NoPath,
              exc |-> Exc(ToolNotExecutableKind, "to_icns")]
        ELSE IF t.exit # 0
        THEN [fs |-> f, ret |-> NoPath,
              exc |-> RuntimeErrorFrom(CalledProcessError(t.exit, t.out, t.err))]
        ELSE IF ~ exists(f2, icns_path)
        THEN [fs |-> f2, ret |-> NoPath,
              exc |-> Exc(PostconditionFailedKind, "to_icns")]
        ELSE [fs |-> f2, ret |-> icns_path, exc |-> NoExc]

\* Path.rename(target) (os.rename): a file cannot replace a directory; an
\* existing file at the target is replaced; ok is whether the operating
\* system otherwise lets the rename through
rename(f, src, dst, ok) ==
    IF is_dir(f, dst)
    THEN [fs |-> f, exc |-> Exc("IsADirectoryError", "move")]
    ELSE IF ~ ok
    THEN [fs |-> f, exc |-> Exc("PermissionError", "move")]
    ELSE [fs |-> [f EXCEPT ![dst] = f[src], ![src] = Absent], exc |-> NoExc]

\* the guard of the move in save_icns
must_move(f, created, final, parentOk) ==
    exists(f, created) /\ created # final /\ parentOk

\* the except clause of save_icns: QMessageBox.warning(..., f"{exc}")
except_report(e) == "failure"

\* variant of cleanup: the folder is removed only when it is empty
cleanup_only_empty(f, temp, ok) ==
    IF exists(f, temp) /\ is_dir(f, temp) /\ f[temp].files = <<>>
    THEN IF ok
         THEN [fs |-> [f EXCEPT ![temp] = Absent], logged |-> FALSE,
               raised |-> FALSE]
         ELSE [fs |-> f, logged |-> TRUE, raised |-> FALSE]
    ELSE [fs |-> f, logged |-> FALSE, raised |-> FALSE]

\* variant of cleanup: the rmtree is not wrapped in try/except
cleanup_unguarded(f, temp, ok) ==
    IF exists(f, temp) /\ is_dir(f, temp)
    THEN IF ok
         THEN [fs |-> [f EXCEPT ![temp] = Absent], logged |-> FALSE,
               raised |-> FALSE]
         ELSE [fs |-> f, logged |-> FALSE, raised |-> TRUE]
    ELSE [fs |-> f, logged |-> FALSE, raised |-> FALSE]

\* the finally clause of save_icns: remove the temporary folder when it is
\* a directory; a failing rmtree is printed, never raised
cleanup(f, temp, ok) ==
    IF exists(f, temp) /\ is_dir(f, temp)
    THEN IF ok
         THEN [fs |-> [f EXCEPT ![temp] = Absent], logged |-> FALSE,
               raised |-> FALSE]
         ELSE [fs |-> f, logged |-> TRUE, raised |-> FALSE]
    ELSE [fs |-> f, logged |-> FALSE, raised |-> FALSE]

(* ------------------------------------------------------------------ *)
(* State                                                               *)
(* ------------------------------------------------------------------ *)
VARIABLES
    source_img,                 \* IconPelikan.source_img
    preview_img,                \* IconPelikan.preview_img
    fs,                         \* the file system: Paths -> entry
    parent_exists,              \* whether the parent directory exists
    pc,                         \* position of save_icns
    icns_save_path,             \* save_icns local
    temp_iconset_folder_path,   \* save_icns local
    created_icns_path,          \* save_icns local
    iconset_dir,                    \* export_iconset local, the path it returns
    idx,                        \* export_iconset: files written so far
    exc,                        \* the exception in flight / caught
    reported,                   \* what the user was told: _flash or warning
    logged,                     \* cleanup failure printed
    escaped,                    \* an exception left save_icns
    tool,                       \* what the converter did in this run
    convCalls,                  \* converter invocations in this run
    failedStep,                 \* the step of the try body that raised
    cleanupFailed,              \* the rmtree of the finally block raised
    runs,                       \* save_icns invocations so far
    cin,                        \* create_icon call under study: arguments
    cout                        \* create_icon call under study: result

vars == <<source_img, preview_img, fs, parent_exists, pc, icns_save_path,
          temp_iconset_folder_path, created_icns_path, iconset_dir, idx, exc,
          reported, logged, escaped, tool, convCalls, failedStep, cleanupFailed, runs,
          cin, cout>>

wfvars == <<source_img, preview_img, fs, parent_exists, pc, icns_save_path,
            temp_iconset_folder_path, created_icns_path, iconset_dir, idx, exc,
            reported, logged, escaped, tool, convCalls, failedStep, cleanupFailed, runs>>
runvars == <<exc, reported, logged, escaped, tool, convCalls, failedStep,
             cleanupFailed, created_icns_path, iconset_dir, idx>>

P(sfx) == [stem |-> Stem, suffix |-> sfx]

\* file systems a run can start from: leftovers of earlier exports and
\* unrelated entries of the user.  No directory is placed at the
\* converter's output path.
InitialFs ==
    { f \in [Paths -> {Absent, File("pre"), Dir("pre", <<>>)}] :
        /\ f[P(".icns")].kind # "dir"
        /\ f[P(".png")].kind # "dir" }

NoCall == [icon_px |-> 0, k |-> 0, radius |-> 0, shape |-> None,
           background |-> None]
NoResult == [raised |-> None, canvas |-> NoImage, inner_px |-> 0, xy |-> 0]

Init ==
    /\ source_img = NoImage
    /\ preview_img = NoImage
    /\ fs \in InitialFs
    /\ parent_exists \in
         IF \E p \in Paths : exists(fs, p) THEN {TRUE} ELSE BOOLEAN
    /\ pc = "idle"
    /\ icns_save_path = NoPath
    /\ temp_iconset_folder_path = NoPath
    /\ created_icns_path = NoPath
    /\ iconset_dir = NoPath
    /\ idx = 0
    /\ exc = NoExc
    /\ reported = None
    /\ logged = FALSE
    /\ escaped = FALSE
    /\ tool = NoTool
    /\ convCalls = 0
    /\ failedStep = None
    /\ cleanupFailed = FALSE
    /\ runs = 0
    /\ cin = NoCall
    /\ cout = [called |-> FALSE, res |-> NoResult, pixels |-> <<>>]

(* ------------------------------------------------------------------ *)
(* main.py: image loading and rebuild                                  *)
(* ------------------------------------------------------------------ *)
\* slider ranges of the window
IconSzMin == 128
IconSzMax == 1024
ScaleMin == 50
ScaleMax == 100
RadMax == 256
Shapes == {"rounded", "circle"}
\* rebuild passes None or (red, green, blue, 255) of the chosen colour
Backgrounds == {NoBackground, <<0, 0, 255, 255>>}

\* the decoded source images offered to load_image
SourceImages ==
    { [width |-> 3, height |-> 2, mode |-> "RGBA", rgb |-> <<255, 0, 0>>,
       alpha |-> 255] }

\* rebuild(): preview_img from the current source and control values
rebuild(src, icon_px, pct, radius, shape, bg) ==
    IF src = NoImage
    THEN NoImage
    ELSE create_icon(src, icon_px, (pct * ScaleDen) \div 100, radius, shape,
                     bg).canvas

Handling == pc \in {"idle", "done"}

load_image ==
    /\ Handling
    /\ \E src \in SourceImages, icon_px \in {IconSzMin, IconSzMax},
          pct \in {ScaleMin, ScaleMax}, radius \in {0, RadMax},
          shape \in Shapes, bg \in Backgrounds :
         /\ source_img' = src
         /\ preview_img' = rebuild(src, icon_px, pct, radius, shape, bg)
    /\ UNCHANGED <<fs, parent_exists, pc, icns_save_path,
                   temp_iconset_folder_path, runvars, runs, cin, cout>>

clear_image ==
    /\ Handling
    /\ source_img # NoImage
    /\ source_img' = NoImage
    /\ preview_img' = NoImage
    /\ UNCHANGED <<fs, parent_exists, pc, icns_save_path,
                   temp_iconset_folder_path, runvars, runs, cin, cout>>

(* ------------------------------------------------------------------ *)
(* main.py: save_icns, step by step                                    *)
(* ------------------------------------------------------------------ *)
\* entries found on disk when a run starts are not of this run
Age(f) == [p \in Paths |->
             IF f[p].kind = "absent" THEN Absent
             ELSE [f[p] EXCEPT !.origin = "pre"]]

\* no preview image, or the file dialog was cancelled: return at once
save_icns_return ==
    /\ Handling
    /\ runs < MaxRuns
    /\ \E chosen \in Paths \cup {NoPath} :
         preview_img = NoImage \/ chosen = NoPath
    /\ runs' = runs + 1
    /\ pc' = "idle"
    /\ UNCHANGED <<source_img, preview_img, fs, parent_exists, icns_save_path,
                   temp_iconset_folder_path, runvars, cin, cout>>

\* a path was chosen: name the temporary folder and enter the try block
save_icns_start ==
    /\ Handling
    /\ runs < MaxRuns
    /\ preview_img # NoImage
    /\ \E chosen \in Paths :
         /\ icns_save_path' = chosen
         /\ temp_iconset_folder_path' = with_suffix(chosen, ".iconset")
    /\ runs' = runs + 1
    /\ fs' = Age(fs)
    /\ pc' = "preclean"
    /\ created_icns_path' = NoPath
    /\ iconset_dir' = NoPath
    /\ idx' = 0
    /\ exc' = NoExc
    /\ reported' = None
    /\ logged' = FALSE
    /\ escaped' = FALSE
    /\ tool' = NoTool
    /\ convCalls' = 0
    /\ failedStep' = None
    /\ cleanupFailed' = FALSE
    /\ UNCHANGED <<source_img, preview_img, parent_exists, cin, cout>>

\* raise inside the try block: control goes to the except clause
Raise(e, step) ==
    /\ exc' = e
    /\ failedStep' = step
    /\ pc' = "except"

\* if temp_iconset_folder_path.exists(): shutil.rmtree(...)
preclean ==
    /\ pc = "preclean"
    /\ IF ~ exists(fs, temp_iconset_folder_path)
       THEN /\ pc' = "mkdir"
            /\ UNCHANGED <<fs, exc, failedStep>>
       ELSE IF ~ is_dir(fs, temp_iconset_folder_path)
       THEN /\ Raise(Exc("NotADirectoryError", "preclean"), "preclean")
            /\ UNCHANGED fs
       ELSE \E ok \in BOOLEAN :
              IF ok
              THEN /\ fs' = [fs EXCEPT ![temp_iconset_folder_path] = Absent]
                   /\ pc' = "mkdir"
                   /\ UNCHANGED <<exc, failedStep>>
              ELSE /\ Raise(Exc("PermissionError", "preclean"), "preclean")
                   /\ UNCHANGED fs
    /\ UNCHANGED <<source_img, preview_img, parent_exists, icns_save_path,
                   temp_iconset_folder_path, created_icns_path, iconset_dir, idx,
                   reported, logged, escaped, tool, convCalls, cleanupFailed,
                   runs, cin, cout>>

\* export_iconset: iconset.mkdir(parents=True, exist_ok=True)
export_iconset_mkdir ==
    /\ pc = "mkdir"
    /\ iconset_dir' = temp_iconset_folder_path
    /\ LET dest == temp_iconset_folder_path
       IN  IF fs[dest].kind = "file"
           THEN /\ Raise(Exc("FileExistsError", "export_iconset"), "staging")
                /\ UNCHANGED <<fs, parent_exists>>
           ELSE \E ok \in BOOLEAN :
                  IF ok
                  THEN /\ fs' = IF is_dir(fs, dest) THEN fs
                                ELSE [fs EXCEPT ![dest] = Dir("run", <<>>)]
                       /\ parent_exists' = TRUE
                       /\ pc' = "write"
                       /\ UNCHANGED <<exc, failedStep>>
                  ELSE /\ Raise(Exc("PermissionError", "export_iconset"),
                                "staging")
                       /\ UNCHANGED <<fs, parent_exists>>
    /\ UNCHANGED <<source_img, preview_img, icns_save_path,
                   temp_iconset_folder_path, created_icns_path, idx, reported,
                   logged, escaped, tool, convCalls, cleanupFailed, runs,
                   cin, cout>>

\* export_iconset: one img.resize(...).save(...) of the loop; after the
\* last one the function returns dest
export_iconset_write ==
    /\ pc = "write"
    /\ idx < ManifestCount
    /\ LET dest == iconset_dir
       IN  \E ok \in BOOLEAN :
             IF ok
             THEN /\ fs' = [fs EXCEPT ![dest].files =
                              save_file(@, manifest_entry(preview_img, idx))]
                  /\ idx' = idx + 1
                  /\ pc' = IF idx + 1 = ManifestCount THEN "to_icns" ELSE "write"
                  /\ UNCHANGED <<exc, failedStep>>
             ELSE /\ Raise(Exc("OSError", "export_iconset"), "staging")
                  /\ UNCHANGED <<fs, idx>>
    /\ UNCHANGED <<source_img, preview_img, parent_exists, icns_save_path,
                   temp_iconset_folder_path, created_icns_path, iconset_dir,
                   reported, logged, escaped, tool, convCalls, cleanupFailed,
                   runs, cin, cout>>

\* created_icns_path = to_icns(temp_iconset_folder_path)
call_to_icns ==
    /\ pc = "to_icns"
    /\ \E t \in ToolOutcomes :
         LET r == to_icns(fs, temp_iconset_folder_path, t)
         IN  /\ tool' = t
             /\ convCalls' = convCalls + 1
             /\ fs' = r.fs
             /\ created_icns_path' = r.ret
             /\ IF r.exc = NoExc
                THEN /\ pc' = "move"
                     /\ UNCHANGED <<exc, failedStep>>
                ELSE Raise(r.exc, "to_icns")
    /\ UNCHANGED <<source_img, preview_img, parent_exists, icns_save_path,
                   temp_iconset_folder_path, iconset_dir, idx, reported, logged,
                   escaped, cleanupFailed, runs, cin, cout>>

\* move the produced file to the chosen path when it differs, then _flash
move_and_flash ==
    /\ pc = "move"
    /\ IF must_move(fs, created_icns_path, icns_save_path, parent_exists)
       THEN \E ok \in BOOLEAN :
              LET r == rename(fs, created_icns_path, icns_save_path, ok)
              IN  IF r.exc = NoExc
                  THEN /\ fs' = r.fs
                       /\ reported' = "success"
                       /\ pc' = "finally"
                       /\ UNCHANGED <<exc, failedStep>>
                  ELSE /\ Raise(r.exc, "move")
                       /\ UNCHANGED <<fs, reported>>
       ELSE /\ reported' = "success"
            /\ pc' = "finally"
            /\ UNCHANGED <<fs, exc, failedStep>>
    /\ UNCHANGED <<source_img, preview_img, parent_exists, icns_save_path,
                   temp_iconset_folder_path, created_icns_path, iconset_dir, idx,
                   logged, escaped, tool, convCalls, cleanupFailed, runs, cin, cout>>

\* variant of except_clause: a failed conversion is tried once more
except_clause_retry ==
    /\ pc = "except"
    /\ IF failedStep = "to_icns" /\ convCalls < 2
       THEN /\ pc' = "to_icns"
            /\ exc' = NoExc
            /\ failedStep' = None
            /\ UNCHANGED reported
       ELSE /\ reported' = except_report(exc)
            /\ pc' = "finally"
            /\ UNCHANGED <<exc, failedStep>>
    /\ UNCHANGED <<source_img, preview_img, fs, parent_exists, icns_save_path,
                   temp_iconset_folder_path, created_icns_path, iconset_dir, idx,
                   logged, escaped, tool, convCalls, cleanupFailed,
                   runs, cin, cout>>

\* except Exception as exc: warn the user
except_clause ==
    /\ pc = "except"
    /\ reported' = except_report(exc)
    /\ pc' = "finally"
    /\ UNCHANGED <<source_img, preview_img, fs, parent_exists, icns_save_path,
                   temp_iconset_folder_path, created_icns_path, iconset_dir, idx,
                   exc, logged, escaped, tool, convCalls, failedStep,
                   cleanupFailed, runs, cin, cout>>

\* finally: clean up the temporary .iconset folder
finally_clause ==
    /\ pc = "finally"
    /\ \E ok \in BOOLEAN :
         LET r == cleanup(fs, temp_iconset_folder_path, ok)
         IN  /\ fs' = r.fs
             /\ logged' = r.logged
             /\ escaped' = r.raised
             /\ cleanupFailed' = (is_dir(fs, temp_iconset_folder_path) /\ ~ ok)
    /\ pc' = "done"
    /\ UNCHANGED <<source_img, preview_img, parent_exists, icns_save_path,
                   temp_iconset_folder_path, created_icns_path, iconset_dir, idx,
                   exc, reported, tool, convCalls, failedStep, runs, cin,
                   cout>>

Next ==
    \/ load_image
    \/ clear_image
    \/ save_icns_return
    \/ save_icns_start
    \/ preclean
    \/ export_iconset_mkdir
    \/ export_iconset_write
    \/ call_to_icns
    \/ move_and_flash
    \/ except_clause
    \/ finally_clause

Spec == Init /\ [][Next]_vars

(* ------------------------------------------------------------------ *)
(* create_icon on its own: every call with valid parameters            *)
(* ------------------------------------------------------------------ *)
\* a caller of create_icon may pass any alpha in the background tuple
ComposeBackgrounds ==
    Backgrounds \cup {<<0, 0, 255, 128>>, <<0, 0, 255, 0>>}

\* sources that are opaque, partly transparent and fully transparent
ComposeSources ==
    SourceImages \cup
    { [width |-> 3, height |-> 2, mode |-> "RGBA", rgb |-> <<255, 0, 0>>,
       alpha |-> a] : a \in {0, 128} }

ValidCalls ==
    [icon_px : 1..MaxCanvas, k : 1..ScaleDen, radius : 0..MaxRadius,
     shape : Shapes, background : ComposeBackgrounds]

NotCalled == [called |-> FALSE, res |-> NoResult, pixels |-> <<>>]

InitCompose ==
    /\ source_img \in ComposeSources
    /\ preview_img = NoImage
    /\ fs = [p \in Paths |-> Absent]
    /\ parent_exists = TRUE
    /\ pc = "idle"
    /\ icns_save_path = NoPath
    /\ temp_iconset_folder_path = NoPath
    /\ created_icns_path = NoPath
    /\ iconset_dir = NoPath
    /\ idx = 0
    /\ exc = NoExc
    /\ reported = None
    /\ logged = FALSE
    /\ escaped = FALSE
    /\ tool = NoTool
    /\ convCalls = 0
    /\ failedStep = None
    /\ cleanupFailed = FALSE
    /\ runs = 0
    /\ cin \in ValidCalls
    /\ cout = NotCalled

compose ==
    /\ ~ cout.called
    /\ LET r == create_icon(source_img, cin.icon_px, cin.k, cin.radius,
                            cin.shape, cin.background)
       IN  cout' = [called |-> TRUE,
                    res |-> r,
                    pixels |-> IF r.raised # None
                               THEN <<>>
                               ELSE create_icon_pixels(
                                      source_img, cin.icon_px, cin.k,
                                      cin.radius, cin.shape, cin.background)]
    /\ UNCHANGED <<cin, wfvars>>

NextCompose == compose

SpecCompose == InitCompose /\ [][NextCompose]_vars

(* ------------------------------------------------------------------ *)
(* create_icon called from two threads on the same source image, one   *)
(* statement group at a time; everything but the source is local       *)
(* ------------------------------------------------------------------ *)
ThreadCanvas == 3
Threads == {1, 2}
ThreadCalls ==
    [icon_px : 1..ThreadCanvas, k : {ScaleDen \div 2, ScaleDen}, radius : {1},
     shape : Shapes, background : Backgrounds]

\* the locals of one call
Locals(at, canvas, img, mask, rounded) ==
    [pc |-> at, canvas |-> canvas, img |-> img, mask |-> mask,
     rounded |-> rounded]

\* every variable but the shared source image
nosrcvars == <<preview_img, fs, parent_exists, pc, icns_save_path,
               temp_iconset_folder_path, created_icns_path, iconset_dir, idx,
               exc, reported, logged, escaped, tool, convCalls, failedStep,
               cleanupFailed, runs>>

InitThreads ==
    /\ source_img \in ComposeSources
    /\ preview_img = NoImage
    /\ fs = [p \in Paths |-> Absent]
    /\ parent_exists = TRUE
    /\ pc = "idle"
    /\ icns_save_path = NoPath
    /\ temp_iconset_folder_path = NoPath
    /\ created_icns_path = NoPath
    /\ iconset_dir = NoPath
    /\ idx = 0
    /\ exc = NoExc
    /\ reported = None
    /\ logged = FALSE
    /\ escaped = FALSE
    /\ tool = NoTool
    /\ convCalls = 0
    /\ failedStep = None
    /\ cleanupFailed = FALSE
    /\ runs = 0
    /\ cin \in [Threads -> ThreadCalls]
    /\ cout = [t \in Threads |-> Locals("canvas", <<>>, <<>>, <<>>, <<>>)]

\* lines 34-37
t_canvas(t) ==
    /\ cout[t].pc = "canvas"
    /\ cout' = [cout EXCEPT
                  ![t].canvas = fill_background(cin[t].icon_px,
                                                cin[t].background),
                  ![t].pc = "resize"]
    /\ UNCHANGED <<cin, wfvars>>

\* variant of t_resize: the shared source is resized in place
t_resize_in_place(t) ==
    /\ cout[t].pc = "resize"
    /\ LET inner_px == (cin[t].icon_px * cin[t].k) \div ScaleDen
       IN  IF ~ resize_ok(source_img, inner_px, inner_px)
           THEN /\ cout' = [cout EXCEPT ![t].pc = "raised"]
                /\ UNCHANGED source_img
           ELSE /\ source_img' = [source_img EXCEPT !.width = inner_px,
                                                    !.height = inner_px]
                /\ cout' = [cout EXCEPT
                              ![t].img = resample(source_img, inner_px),
                              ![t].pc = "mask"]
    /\ UNCHANGED <<cin, nosrcvars>>

\* lines 39-40: reads the source, makes a new image
t_resize(t) ==
    /\ cout[t].pc = "resize"
    /\ LET inner_px == (cin[t].icon_px * cin[t].k) \div ScaleDen
       IN  IF ~ resize_ok(source_img, inner_px, inner_px)
           THEN cout' = [cout EXCEPT ![t].pc = "raised"]
           ELSE cout' = [cout EXCEPT
                           ![t].img = resample(source_img, inner_px),
                           ![t].pc = "mask"]
    /\ UNCHANGED <<cin, wfvars>>

\* lines 42-49
t_mask(t) ==
    /\ cout[t].pc = "mask"
    /\ LET inner_px == (cin[t].icon_px * cin[t].k) \div ScaleDen
       IN  cout' = [cout EXCEPT
                      ![t].mask = draw_mask(cin[t].shape, inner_px,
                                            cin[t].radius),
                      ![t].pc = "rounded"]
    /\ UNCHANGED <<cin, wfvars>>

\* lines 51-52
t_rounded(t) ==
    /\ cout[t].pc = "rounded"
    /\ LET inner_px == (cin[t].icon_px * cin[t].k) \div ScaleDen
       IN  cout' = [cout EXCEPT
                      ![t].rounded = paste_masked(cout[t].img, cout[t].mask,
                                                  inner_px),
                      ![t].pc = "paste"]
    /\ UNCHANGED <<cin, wfvars>>

\* lines 55-57
t_paste(t) ==
    /\ cout[t].pc = "paste"
    /\ LET inner_px == (cin[t].icon_px * cin[t].k) \div ScaleDen
           xy == (cin[t].icon_px - inner_px) \div 2
       IN  cout' = [cout EXCEPT
                      ![t].canvas = paste_centered(cout[t].canvas,
                                                   cout[t].rounded, xy,
                                                   inner_px, cin[t].icon_px),
                      ![t].pc = "returned"]
    /\ UNCHANGED <<cin, wfvars>>

NextThreads ==
    \E t \in Threads :
        \/ t_canvas(t)
        \/ t_resize(t)
        \/ t_mask(t)
        \/ t_rounded(t)
        \/ t_paste(t)

SpecThreads == InitThreads /\ [][NextThreads]_vars

(* ================================================================== *)
(* Properties                                                          *)
(* ================================================================== *)
Finished == pc = "done"
TempDir == temp_iconset_folder_path
DefaultOutput == with_suffix(temp_iconset_folder_path, ".icns")
\* a container file made by the current run sits at p
NewFileAt(p) == fs[p].kind = "file" /\ fs[p].origin = "run"

\* C1 as claimed: once the temporary folder is named and the workflow has
\* started, the workflow ends with no directory at the temporary path,
\* whatever the outcome.
C1_AlwaysRemoved ==
    Finished => ~ is_dir(fs, TempDir)

\* C1: the workflow ends with no directory at the temporary path whatever
\* the primary outcome, unless the removal in the finally block itself
\* failed; that failure is logged.
C1_RemovedUnlessCleanupFails ==
    Finished =>
        /\ ~ cleanupFailed => ~ is_dir(fs, TempDir)
        /\ cleanupFailed => (logged /\ is_dir(fs, TempDir))

\* a failed run whose staging had written files ends with the folder gone
C1_Witness ==
    /\ Finished
    /\ reported = "failure"
    /\ idx > 0
    /\ ~ cleanupFailed
    /\ ~ exists(fs, TempDir)

\* the states of the export workflow, read off the position of save_icns
PhaseOf(p, rep) ==
    CASE p = "idle" -> "Idle"
      [] p \in {"preclean", "mkdir", "write"} -> "Staging"
      [] p \in {"to_icns", "move"} -> "Converting"
      [] p = "except" -> "Failed"
      [] p = "finally" -> IF rep = "success" THEN "Succeeded" ELSE "Failed"
      [] p = "done" -> "CleanedUp"

AllowedTransitions ==
    { <<"Idle", "Idle">>, <<"Idle", "Staging">>,
      <<"Staging", "Staging">>, <<"Staging", "Converting">>,
      <<"Staging", "Failed">>,
      <<"Converting", "Converting">>, <<"Converting", "Succeeded">>,
      <<"Converting", "Failed">>,
      <<"Failed", "Failed">>,
      <<"Succeeded", "CleanedUp">>, <<"Failed", "CleanedUp">>,
      \* a later invocation of the handler
      <<"CleanedUp", "CleanedUp">>, <<"CleanedUp", "Staging">>,
      <<"CleanedUp", "Idle">> }

\* C2: every run goes Idle -> Staging -> Converting -> {Succeeded, Failed}
\* -> CleanedUp; the converter is invoked only once all 14 files are
\* written, at most once per run, never after a staging failure, and
\* nothing of the run changes after CleanedUp.
C2_WorkflowOrder ==
    [][ /\ <<PhaseOf(pc, reported), PhaseOf(pc', reported')>>
             \in AllowedTransitions
        /\ (PhaseOf(pc, reported) = "Staging"
              /\ PhaseOf(pc', reported') = "Converting")
             => (idx' = 14 /\ Len(fs'[TempDir].files) = 14)
        /\ (runs' = runs /\ convCalls' # convCalls)
             => /\ convCalls = 0
                /\ convCalls' = 1
                /\ PhaseOf(pc, reported) = "Converting"
                /\ Len(fs[TempDir].files) = 14
        /\ failedStep' \in {"preclean", "staging"} => convCalls' = 0
        /\ (pc = "done" /\ runs' = runs)
             => UNCHANGED <<fs, parent_exists, icns_save_path,
                            temp_iconset_folder_path, runvars>>
      ]_vars

\* a run that invoked the converter once and was cleaned up
C2_Witness ==
    /\ Finished
    /\ convCalls = 1
    /\ reported = "success"

\* C3 as claimed: if staging and conversion both succeed, the container
\* file is at the chosen final path when the workflow finishes, for every
\* suffix of the chosen path, and success is reported only when the file
\* is there.  (Runs in which the operating system refuses the move, or in
\* which a directory of the user already sits at the final path, are left
\* aside: no code could put the file there.)
C3_FileAtFinalPath ==
    /\ (reported = "success" /\ pc \in {"finally", "done"})
          => fs[icns_save_path].kind = "file"
    /\ (/\ Finished
        /\ created_icns_path # NoPath
        /\ ~ (failedStep = "move" /\ exc.type = "PermissionError")
        /\ ~ (is_dir(fs, icns_save_path) /\ fs[icns_save_path].origin = "pre"))
          => fs[icns_save_path].kind = "file"

\* C4 as claimed: whenever the workflow ends in failure, the run has
\* created no container file at the final path or at the converter's
\* default output path, and the temporary folder is removed.
C4_NoFileOnAnyFailure ==
    (Finished /\ reported = "failure") =>
        /\ ~ NewFileAt(icns_save_path)
        /\ ~ NewFileAt(DefaultOutput)
        /\ ~ is_dir(fs, TempDir)

\* C4: whenever the workflow fails because staging failed, the converter
\* was absent or not executable, or the converter produced no output
\* file, the run has created no container file at the final path or at the
\* default output path, and the temporary folder is removed unless its
\* removal failed.
C4_NoFileWhenNothingProduced ==
    (/\ Finished
     /\ reported = "failure"
     /\ failedStep \in {"preclean", "staging", "to_icns"}
     /\ ~ tool.produced) =>
        /\ ~ NewFileAt(icns_save_path)
        /\ ~ NewFileAt(DefaultOutput)
        /\ ~ cleanupFailed => ~ is_dir(fs, TempDir)

\* the converter was absent: the run failed and the folder is gone
C4_Witness ==
    /\ Finished
    /\ reported = "failure"
    /\ tool.state = "absent"
    /\ ~ exists(fs, TempDir)

\* C5 as claimed: a missing or non-executable converter is reported with a
\* kind distinct from the kinds of a non-zero exit and of a missing output.
C5_ToolUnavailableDistinct ==
    (failedStep = "to_icns" /\ tool.state \in {"absent", "noexec"}) =>
        exc.type \notin {ConversionFailedKind, PostconditionFailedKind}

\* C6 as claimed: on a non-zero exit the error carries the exit code and
\* the converter's captured stdout and stderr.
C6_CarriesDiagnostics ==
    (failedStep = "to_icns" /\ tool.state = "ran" /\ tool.exit # 0) =>
        /\ exc.type = ConversionFailedKind
        /\ exc.returncode = tool.exit
        /\ exc.stdout = tool.out
        /\ exc.stderr = tool.err

C8_CleanupNeverMasks ==
    [][ /\ pc = "finally"
          => /\ reported' = reported
             /\ exc' = exc
             /\ ~ escaped'
             /\ cleanupFailed' => logged'
        /\ pc' = "except" => (exc' # NoExc /\ failedStep' # None)
        /\ pc' \in {"finally", "done"}
          => /\ failedStep' # None <=> reported' = "failure"
             /\ failedStep' = None <=> reported' = "success"
      ]_vars

\* a succeeded run whose cleanup failed is still reported as succeeded
C8_Witness ==
    /\ Finished
    /\ cleanupFailed
    /\ logged
    /\ reported = "success"

\* the manifest as the specification lists it
ExpectedNames ==
    << "icon_16x16.png", "icon_16x16@2x.png",
       "icon_32x32.png", "icon_32x32@2x.png",
       "icon_64x64.png", "icon_64x64@2x.png",
       "icon_128x128.png", "icon_128x128@2x.png",
       "icon_256x256.png", "icon_256x256@2x.png",
       "icon_512x512.png", "icon_512x512@2x.png",
       "icon_1024x1024.png", "icon_1024x1024@2x.png" >>
ExpectedSides ==
    << 16, 32, 32, 64, 64, 128, 128, 256, 256, 512, 512, 1024, 1024, 2048 >>

\* C9: while export_iconset writes, the folder holds the first files of the
\* manifest in manifest order; when it has returned, the folder exists
\* (with its parent), holds exactly the 14 distinctly named files, plain
\* before @2x for sizes 16..1024, each of its nominal pixel size, and the
\* returned path is the destination; this for every canvas size.
C9_ManifestExact ==
    pc \in {"write", "to_icns"} =>
        LET files == fs[temp_iconset_folder_path].files
        IN  /\ iconset_dir = temp_iconset_folder_path
            /\ is_dir(fs, iconset_dir)
            /\ parent_exists
            /\ Len(files) = idx
            /\ pc = "to_icns" => Len(files) = 14
            /\ \A j \in 1..Len(files) :
                 /\ files[j].name = ExpectedNames[j]
                 /\ files[j].image.width = ExpectedSides[j]
                 /\ files[j].image.height = ExpectedSides[j]
            /\ Cardinality({files[j].name : j \in 1..Len(files)}) = Len(files)

\* export_iconset has returned for the smallest canvas of the window
C9_Witness ==
    /\ pc = "to_icns"
    /\ preview_img.width = 128
    /\ Len(fs[temp_iconset_folder_path].files) = 14

\* C10 as claimed: for all valid parameters create_icon returns an RGBA
\* canvas of icon_px x icon_px, with the inner region of side
\* floor(icon_px * scale) at offset floor((icon_px - inner) / 2) on both
\* axes, inside the canvas.
C10_CanvasGeometry ==
    cout.called =>
        LET r == cout.res
            inner == (cin.icon_px * cin.k) \div ScaleDen
            off == (cin.icon_px - inner) \div 2
        IN  /\ r.raised = None
            /\ r.canvas = [width |-> cin.icon_px, height |-> cin.icon_px,
                           mode |-> "RGBA"]
            /\ r.inner_px = inner
            /\ r.xy = off
            /\ r.xy >= 0
            /\ r.xy + r.inner_px <= cin.icon_px

\* the call under study: inner side, offset, and where a canvas pixel lies
CallInner == (cin.icon_px * cin.k) \div ScaleDen
CallOffset == (cin.icon_px - CallInner) \div 2
Returned == cout.called /\ cout.res.raised = None
InInnerBox(q) ==
    /\ CallOffset <= q[1] /\ q[1] < CallOffset + CallInner
    /\ CallOffset <= q[2] /\ q[2] < CallOffset + CallInner
InsideShape(q) ==
    /\ InInnerBox(q)
    /\ mask_value(cin.shape, CallInner, cin.radius,
                  q[1] - CallOffset, q[2] - CallOffset) = 255

\* C11 as claimed: when floor(icon_px * scale) is 0, create_icon does not
\* fail and returns the icon_px x icon_px canvas unmodified: transparent
\* without a background, uniformly the background colour with one.
C11_ZeroInnerUnmodified ==
    (cout.called /\ CallInner = 0) =>
        /\ cout.res.raised = None
        /\ cout.res.canvas = [width |-> cin.icon_px, height |-> cin.icon_px,
                              mode |-> "RGBA"]
        /\ \A q \in Grid(cin.icon_px) :
             cout.pixels[q] = IF cin.background = NoBackground
                              THEN <<0, 0, 0, 0>>
                              ELSE cin.background

\* C12 as claimed: with a background, every canvas pixel not covered by
\* the masked inner image has the background's colour with alpha 255,
\* whatever alpha the caller passed.
C12_BackgroundOpaque ==
    (Returned /\ cin.background # NoBackground) =>
        \A q \in Grid(cin.icon_px) :
            ~ InsideShape(q) =>
                cout.pixels[q] = <<cin.background[1], cin.background[2],
                                   cin.background[3], 255>>

AloneRaises(c) ==
    create_icon(source_img, c.icon_px, c.k, c.radius, c.shape,
                c.background).raised # None
AlonePixels(c) ==
    create_icon_pixels(source_img, c.icon_px, c.k, c.radius, c.shape,
                       c.background)

\* C14: no step of a call changes the source image; a call interleaved
\* with another call returns (or raises) exactly what it does alone; two
\* calls with the same parameters return identical canvases.
C14_DeterministicNoSharedState ==
    [][ /\ source_img' = source_img
        /\ \A t \in Threads :
             /\ cout'[t].pc = "returned"
                  => /\ ~ AloneRaises(cin[t])
                     /\ cout'[t].canvas = AlonePixels(cin[t])
             /\ cout'[t].pc = "raised" => AloneRaises(cin[t])
        /\ \A t, u \in Threads :
             (/\ cin[t] = cin[u]
              /\ cout'[t].pc = "returned"
              /\ cout'[u].pc = "returned")
               => cout'[t].canvas = cout'[u].canvas
      ]_vars

\* two calls with different parameters have both returned
C14_Witness ==
    /\ cout[1].pc = "returned"
    /\ cout[2].pc = "returned"
    /\ cin[1] # cin[2]
    /\ cout[1].canvas # cout[2].canvas

\* C15 as claimed: a run removes only what it created: no entry that was
\* on disk before the run started is deleted or replaced by a step of the
\* run, in particular not a directory at the staging path.  (The chosen
\* final path is left aside: the user asked to write there.)
C15_RemovesOnlyOwnEntries ==
    [][ runs' = runs =>
          \A p \in Paths :
              (/\ exists(fs, p)
               /\ fs[p].origin = "pre"
               /\ p # icns_save_path)
                => fs'[p] = fs[p]
      ]_vars

\* C16 as claimed: a run that reports success leaves at the final path a
\* container file written by this run's converter invocation; a file that
\* was at the converter's output path before the run never makes a run
\* succeed whose converter exited 0 without output.
C16_SuccessMeansFreshFile ==
    (pc \in {"finally", "done"} /\ reported = "success") =>
        /\ tool.produced
        /\ fs[icns_save_path].kind = "file"
        /\ fs[icns_save_path].origin = "run"

====
